---- MODULE Spec2Model ----
(***************************************************************************)
(* A model of experiments/lm_rnn.py: the character vocabulary built at     *)
(* module load, the windowed dataset (LMDataset), the training driver      *)
(* (Trainer.train, train_epoch, validate, save_model) and the sampler      *)
(* (Predictor).  Characters are code points; Python sequences are 0-based  *)
(* and TLA+ sequences 1-based, so Python index k is position k + 1 here.   *)
(***************************************************************************)
EXTENDS Integers, Sequences, FiniteSets, TLC

\* ------------------------------------------------------------------ bounds
MaxText == 11
MaxShortText == 6
MaxWindow == 2
MaxValExamples == 3
MaxEpochs == 2
MaxTrainBatches == 2
MaxBatchSize == 1
MaxSeed == 2
MaxGen == 2

\* Code points of the corpus alphabet: "\n", "a", "b".
Chars == {10, 97, 98}
\* The long corpora use two of them, so that a validation split long enough
\* to hold windows stays within reach.
LongChars == {97, 98}

SeqsUpTo(S, n) == UNION {[1..k -> S] : k \in 0..n}

Texts == SeqsUpTo(LongChars, MaxText) \cup SeqsUpTo(Chars, MaxShortText)

\* ---------------------------------------------------------------- helpers
Range(s) == {s[k] : k \in DOMAIN s}

Min(a, b) == IF a < b THEN a ELSE b

\* Python s[a:b] for 0 <= a, b (out-of-range ends are clipped).
Slice(s, a, b) == SubSeq(s, a + 1, Min(b, Len(s)))

\* The recurrent state / table cell "None".
None == <<>>

VARIABLES
    \* module level (lines 11-23)
    text, train_set, val_set, vocab, char2idx,
    \* Datasets / LMDataset construction (lines 26-53)
    dpc, max_length, dataset, i, xs, ys, built,
    \* Trainer (lines 98-187)
    tpc, num_epoch, epoch, num_batches, batch_size, val_examples,
    remaining, output, tokens_count, correct, tb, losses, steps,
    val_loss, accuracy, all_losses,
    \* the results directory
    written, model_pth, vocab_json, train_csv,
    \* Predictor (lines 221-255); log records the model steps of the current
    \* call of predict, reused whether an earlier call has returned
    ppc, num_classes, seed, gen_length, tokens, states, generated, count,
    log, reused, result

dataVars == <<text, train_set, val_set, vocab, char2idx,
              dpc, max_length, dataset, i, xs, ys, built>>

trainVars == <<tpc, num_epoch, epoch, num_batches, batch_size, val_examples,
               remaining, output, tokens_count, correct, tb, losses, steps,
               val_loss, accuracy, all_losses>>

fileVars == <<written, model_pth, vocab_json, train_csv>>

predVars == <<ppc, num_classes, seed, gen_length, tokens, states, generated,
              count, log, reused, result>>

vars == <<dataVars, trainVars, fileVars, predVars>>

\* ------------------------------------------------- module load, lines 11-23
train_size(t) == (Len(t) * 7) \div 10

MinOf(S) == CHOOSE m \in S : \A x \in S : m <= x

MaxOf(S) == CHOOSE m \in S : \A x \in S : m >= x

\* sorted(set(...)): the distinct elements in increasing code point order.
RECURSIVE SortedSet(_)
SortedSet(S) == IF S = {} THEN <<>> ELSE <<MinOf(S)>> \o SortedSet(S \ {MinOf(S)})

\* {char: idx for idx, char in enumerate(v)}: a later entry overwrites an
\* earlier one with the same key.
Enumerate(v) == [c \in Range(v) |-> MaxOf({k \in 0..(Len(v) - 1) : v[k + 1] = c})]

VocabSourceWhole(t) == t

\* The text the vocabulary is built from: the training split.
VocabSource(t) == Slice(t, 0, train_size(t))

LoadModule ==
    /\ dpc = "load"
    /\ train_set' = Slice(text, 0, train_size(text))
    /\ val_set' = Slice(text, train_size(text), Len(text))
    /\ vocab' = SortedSet(Range(VocabSource(text)))
    /\ char2idx' = Enumerate(vocab')
    /\ dpc' = "datasets"
    /\ UNCHANGED <<text, max_length, dataset, i, xs, ys, built, trainVars, fileVars, predVars>>

\* ------------------------------------------------- LMDataset, lines 26-43
StopOffByOne(d, L) == Len(d) - L - 1

\* The stop of range(0, len(dataset) - max_length - 2, max_length).
Stop(d, L) == Len(d) - L - 2

TxtShort(d, k, L) == Slice(d, k, k + L)

\* txt = dataset[i : i + max_length + 1]
Txt(d, k, L) == Slice(d, k, k + L + 1)

KnownNonZero(txt) ==
    \A k \in DOMAIN txt : txt[k] \in DOMAIN char2idx /\ char2idx[txt[k]] # 0

\* char2idx[char] raises KeyError for a character that is no key.
Known(txt) == \A k \in DOMAIN txt : txt[k] \in DOMAIN char2idx

Indices(txt) == [k \in DOMAIN txt |-> char2idx[txt[k]]]

\* indices[:-1] and indices[1:]
ButLast(s) == SubSeq(s, 1, Len(s) - 1)

Tail1(s) == SubSeq(s, 2, Len(s))

\* Datasets.__init__ constructs LMDataset(train_set, ...) and then
\* LMDataset(val_set, ...); which names the split.
LMDatasetBegin(which, d) ==
    /\ dataset' = d
    /\ i' = 0
    /\ xs' = <<>>
    /\ ys' = <<>>
    /\ dpc' = which
    /\ UNCHANGED <<text, train_set, val_set, vocab, char2idx, max_length, built,
                   trainVars, fileVars, predVars>>

BeginTrain ==
    /\ dpc = "datasets"
    /\ LMDatasetBegin("train", train_set)

BeginVal ==
    /\ dpc = "train_done"
    /\ LMDatasetBegin("val", val_set)

InLoop == dpc \in {"train", "val"}

\* One iteration of the for loop whose lookups all succeed.
LMDatasetIter ==
    /\ InLoop
    /\ i < Stop(dataset, max_length)
    /\ Known(Txt(dataset, i, max_length))
    /\ LET indices == Indices(Txt(dataset, i, max_length)) IN
         /\ xs' = Append(xs, ButLast(indices))
         /\ ys' = Append(ys, Tail1(indices))
    /\ i' = i + max_length
    /\ UNCHANGED <<text, train_set, val_set, vocab, char2idx, dpc, max_length,
                   dataset, built, trainVars, fileVars, predVars>>

\* An iteration in which a lookup raises: the constructor is left by the
\* exception and the script stops.
LMDatasetKeyError ==
    /\ InLoop
    /\ i < Stop(dataset, max_length)
    /\ ~Known(Txt(dataset, i, max_length))
    /\ dpc' = IF dpc = "train" THEN "train_KeyError" ELSE "val_KeyError"
    /\ UNCHANGED <<text, train_set, val_set, vocab, char2idx, max_length,
                   dataset, i, xs, ys, built, trainVars, fileVars, predVars>>

\* The loop is over: self.xs, self.ys are set (lines 36-37).
LMDatasetEnd ==
    /\ InLoop
    /\ ~(i < Stop(dataset, max_length))
    /\ built' = Append(built, [which |-> dpc, split |-> dataset, xs |-> xs, ys |-> ys])
    /\ dpc' = IF dpc = "train" THEN "train_done" ELSE "ready"
    /\ UNCHANGED <<text, train_set, val_set, vocab, char2idx, max_length,
                   dataset, i, xs, ys, trainVars, fileVars, predVars>>


\* The module level of a process that has loaded corpus t (lines 11-23).
ModuleLoaded(t) ==
    /\ text = t
    /\ train_set = Slice(t, 0, train_size(t))
    /\ val_set = Slice(t, train_size(t), Len(t))
    /\ vocab = SortedSet(Range(VocabSource(t)))
    /\ char2idx = Enumerate(vocab)

DatasetsIdle ==
    /\ dpc = "ready"
    /\ max_length = 1
    /\ dataset = <<>>
    /\ i = 0
    /\ xs = <<>>
    /\ ys = <<>>
    /\ built = <<>>

\* A corpus whose training split has exactly the characters S.
CorpusFor(S) == SortedSet(S) \o [k \in 1..Cardinality(S) |-> 97]

\* ------------------------------------------------------ JSON, lines 187, 224
\* json.dumps of one character inside a string: "\n" is escaped as \n.
JsonChar(c) == IF c = 10 THEN <<92, 110>> ELSE <<c>>

RECURSIVE JsonItems(_)
JsonItems(v) ==
    IF v = <<>> THEN <<>>
    ELSE <<34>> \o JsonChar(v[1]) \o <<34>>
         \o (IF Len(v) > 1 THEN <<44, 32>> \o JsonItems(Tail(v)) ELSE <<>>)

\* json.dumps(list of characters): ["a", "b"] as code points.
JsonDumps(v) == <<91>> \o JsonItems(v) \o <<93>>

RECURSIVE JsonParseItems(_)
JsonParseItems(s) ==
    IF s = <<>> THEN <<>>
    ELSE LET escaped == s[2] = 92
             c == IF escaped THEN (IF s[3] = 110 THEN 10 ELSE s[3]) ELSE s[2]
             used == IF escaped THEN 4 ELSE 3
             after == SubSeq(s, used + 1, Len(s))
         IN <<c>> \o JsonParseItems(IF after = <<>> THEN <<>>
                                    ELSE SubSeq(after, 3, Len(after)))

\* json.load of an array of one-character strings.
JsonLoad(s) == JsonParseItems(SubSeq(s, 2, Len(s) - 1))

\* ------------------------------------------------- Trainer, lines 98-187
\* Token indices and classes of the validation tensors.
Classes == {0, 1}

\* tensor / tensor (line 154) as the fraction <<a, b>>; 0 / 0 is nan and
\* stays <<0, 0>>.
TensorDiv(a, b) == <<a, b>>

\* DataLoader(LMDataset(val_set, ...), batch_size=batch_size * 2, shuffle=True)
ValBatchSize == batch_size * 2

\* validate(), lines 136-140.
EnterValidate ==
    /\ tokens_count' = 0
    /\ correct' = 0
    /\ remaining' = DOMAIN val_examples
    /\ output' = <<>>

Count(S) == Cardinality(S)

\* masks = _tokens.gt(0.0)
Mask(tok) == tok > 0

\* train(), line 161.
TrainStart ==
    /\ tpc = "start"
    /\ tpc' = "validate0"
    /\ EnterValidate
    /\ UNCHANGED <<num_epoch, epoch, num_batches, batch_size, val_examples, tb,
                   losses, steps, val_loss, accuracy, all_losses>>
    /\ UNCHANGED <<dataVars, fileVars, predVars>>

InValidate == tpc \in {"validate0", "validate"}

\* One batch of the validation loader (lines 142-152): the shuffling loader
\* hands out any ValBatchSize of the examples not yet seen in this pass, the
\* last batch the rest; the model's top-1 prediction is any class.
ValidateBatch ==
    /\ InValidate
    /\ remaining # {}
    /\ \E S \in SUBSET remaining :
         /\ Cardinality(S) = Min(ValBatchSize, Cardinality(remaining))
         /\ \E out \in [S -> Classes] :
              /\ tokens_count' = tokens_count + Count({e \in S : Mask(val_examples[e][1])})
              /\ correct' = correct
                   + Count({e \in S : out[e] = val_examples[e][2] /\ Mask(val_examples[e][1])})
              /\ output' = [e \in (DOMAIN output) \cup S |->
                              IF e \in S THEN out[e] ELSE output[e]]
         /\ remaining' = remaining \ S
    /\ UNCHANGED <<tpc, num_epoch, epoch, num_batches, batch_size, val_examples, tb,
                   losses, steps, val_loss, accuracy, all_losses>>
    /\ UNCHANGED <<dataVars, fileVars, predVars>>

\* Line 154 with no batch processed: tokens_count and val_loss are still the
\* Python ints 0, and 0 / 0 raises ZeroDivisionError, which leaves train().
ValidateZeroDivision ==
    /\ InValidate
    /\ remaining = {}
    /\ val_examples = <<>>
    /\ tpc' = "ZeroDivisionError"
    /\ UNCHANGED <<num_epoch, epoch, num_batches, batch_size, val_examples,
                   remaining, output, tokens_count, correct, tb, losses, steps,
                   val_loss, accuracy, all_losses>>
    /\ UNCHANGED <<dataVars, fileVars, predVars>>

LoopOneShort(e) == IF e + 1 < num_epoch THEN "train_epoch" ELSE "save_model"

\* for epoch in range(num_epoch): the next iteration or the code after the loop.
LoopOrSave(e) == IF e < num_epoch THEN "train_epoch" ELSE "save_model"

ValRow(l, a) == [train_loss |-> None, val_loss |-> l, accuracy |-> a]

TrainRow(l) == [train_loss |-> l, val_loss |-> None, accuracy |-> None]

TrainRows(ls) == [k \in DOMAIN ls |-> TrainRow(ls[k])]

\* The loss of the model after `steps` optimizer steps, as an opaque value.
LossAt(n) == <<n>>

\* Lines 154 and 161-162: the baseline validation returns and opens the log.
ValidateReturn0 ==
    /\ tpc = "validate0"
    /\ remaining = {}
    /\ val_examples # <<>>
    /\ val_loss' = LossAt(steps)
    /\ accuracy' = TensorDiv(correct, tokens_count)
    /\ all_losses' = <<ValRow(val_loss', accuracy')>>
    /\ tpc' = LoopOrSave(epoch)
    /\ tb' = 0
    /\ losses' = <<>>
    /\ UNCHANGED <<num_epoch, epoch, num_batches, batch_size, val_examples,
                   remaining, output, tokens_count, correct, steps>>
    /\ UNCHANGED <<dataVars, fileVars, predVars>>

\* One batch of train_epoch (lines 118-132): the loss is taken, then the
\* optimizer steps.
TrainBatch ==
    /\ tpc = "train_epoch"
    /\ tb < num_batches
    /\ losses' = Append(losses, LossAt(steps))
    /\ steps' = steps + 1
    /\ tb' = tb + 1
    /\ UNCHANGED <<tpc, num_epoch, epoch, num_batches, batch_size, val_examples,
                   remaining, output, tokens_count, correct, val_loss, accuracy,
                   all_losses>>
    /\ UNCHANGED <<dataVars, fileVars, predVars>>

\* Lines 133 and 171: train_epoch returns its losses and validate() starts.
TrainEpochReturn ==
    /\ tpc = "train_epoch"
    /\ tb = num_batches
    /\ tpc' = "validate"
    /\ EnterValidate
    /\ UNCHANGED <<num_epoch, epoch, num_batches, batch_size, val_examples, tb,
                   losses, steps, val_loss, accuracy, all_losses>>
    /\ UNCHANGED <<dataVars, fileVars, predVars>>

RowsBeforeTraining(old, ls, l, a) == (old \o <<ValRow(l, a)>>) \o TrainRows(ls)

\* Lines 172-173: the epoch's training rows, then its validation row.
EpochRows(old, ls, l, a) == (old \o TrainRows(ls)) \o <<ValRow(l, a)>>

\* Lines 154 and 171-173: the epoch's validation returns; the log grows.
ValidateReturn ==
    /\ tpc = "validate"
    /\ remaining = {}
    /\ val_examples # <<>>
    /\ val_loss' = LossAt(steps)
    /\ accuracy' = TensorDiv(correct, tokens_count)
    /\ all_losses' = EpochRows(all_losses, losses, val_loss', accuracy')
    /\ epoch' = epoch + 1
    /\ tpc' = LoopOrSave(epoch')
    /\ tb' = 0
    /\ losses' = <<>>
    /\ UNCHANGED <<num_epoch, num_batches, batch_size, val_examples,
                   remaining, output, tokens_count, correct, steps>>
    /\ UNCHANGED <<dataVars, fileVars, predVars>>

\* A numeric-framework error (device, memory) in a training or validation
\* step is not caught anywhere: the exception leaves train().
FrameworkError ==
    /\ tpc \in {"validate0", "validate", "train_epoch"}
    /\ tpc' = "RuntimeError"
    /\ UNCHANGED <<num_epoch, epoch, num_batches, batch_size, val_examples,
                   remaining, output, tokens_count, correct, tb, losses, steps,
                   val_loss, accuracy, all_losses>>
    /\ UNCHANGED <<dataVars, fileVars, predVars>>

\* save_model, lines 183-184: torch.save(state_dict, "model.pth"); the model
\* train() hands to the Trainer has len(vocab) classes (lines 203-205).
SaveModelPth ==
    /\ tpc = "save_model"
    /\ model_pth' = <<Len(vocab)>>
    /\ written' = Append(written, "model.pth")
    /\ tpc' = "save_vocab"
    /\ UNCHANGED <<num_epoch, epoch, num_batches, batch_size, val_examples,
                   remaining, output, tokens_count, correct, tb, losses, steps,
                   val_loss, accuracy, all_losses>>
    /\ UNCHANGED <<dataVars, predVars, vocab_json, train_csv>>

\* save_model, lines 186-187: vocab.json holds json.dumps(vocab).
SaveVocabJson ==
    /\ tpc = "save_vocab"
    /\ vocab_json' = JsonDumps(vocab)
    /\ written' = Append(written, "vocab.json")
    /\ tpc' = "to_csv"
    /\ UNCHANGED <<num_epoch, epoch, num_batches, batch_size, val_examples,
                   remaining, output, tokens_count, correct, tb, losses, steps,
                   val_loss, accuracy, all_losses>>
    /\ UNCHANGED <<dataVars, predVars, model_pth, train_csv>>

\* Lines 177-180: the whole log goes to train.csv.
ToCsv ==
    /\ tpc = "to_csv"
    /\ train_csv' = all_losses
    /\ written' = Append(written, "train.csv")
    /\ tpc' = "done"
    /\ UNCHANGED <<num_epoch, epoch, num_batches, batch_size, val_examples,
                   remaining, output, tokens_count, correct, tb, losses, steps,
                   val_loss, accuracy, all_losses>>
    /\ UNCHANGED <<dataVars, predVars, model_pth, vocab_json>>


\* ------------------------------------------------ Predictor, lines 221-255
\* Predictor.__init__: vocab.json is read into a local of the constructor
\* that sizes the model; the weights must have that shape to load.
PredictorInit ==
    /\ ppc = "new"
    /\ LET v == JsonLoad(vocab_json) IN
         /\ model_pth = <<Len(v)>>
         /\ num_classes' = Len(v)
    /\ ppc' = "ready"
    /\ UNCHANGED <<seed, gen_length, tokens, states, generated, count, log,
                   reused, result>>
    /\ UNCHANGED <<dataVars, trainVars, fileVars>>

Seeds == SeqsUpTo(Chars, MaxSeed)

StatesKept(old) == old

\* states = None (line 241); old is what the name held before.
StatesAtCall(old) == None

\* Lines 235-241 with every seed character a key of char2idx.
PredictBegin ==
    /\ ppc = "ready"
    /\ \E sd \in Seeds, n \in 0..MaxGen :
         /\ Known(sd)
         /\ seed' = sd
         /\ gen_length' = n
         /\ tokens' = Indices(sd)
    /\ generated' = <<>>
    /\ states' = StatesAtCall(states)
    /\ count' = 0
    /\ log' = <<>>
    /\ ppc' = "loop"
    /\ UNCHANGED <<num_classes, reused, result>>
    /\ UNCHANGED <<dataVars, trainVars, fileVars>>

\* Line 235 with a seed character that is no key of char2idx.
PredictKeyError ==
    /\ ppc = "ready"
    /\ \E sd \in Seeds, n \in 0..MaxGen :
         /\ ~Known(sd)
         /\ seed' = sd
         /\ gen_length' = n
    /\ log' = <<>>
    /\ ppc' = "KeyError"
    /\ UNCHANGED <<num_classes, tokens, states, generated, count, reused, result>>
    /\ UNCHANGED <<dataVars, trainVars, fileVars>>

\* LstmLM.predict (lines 89-95) accepts x: the embedding has num_embeddings
\* rows and the recurrent layer needs a sequence of at least one step.
ModelAccepts(x) == x # <<>> /\ \A k \in DOMAIN x : x[k] < num_classes

\* The recurrent state after the cell has consumed x from state st, kept as
\* the sequence of every token consumed since the state was None.
LstmState(st, x) == st \o x

\* tokens = torch.LongTensor([predicted_idx]) (line 253).
NextTokens(old, idx) == <<idx>>

\* One iteration of lines 243-253 that completes: multinomial sampling draws
\* any class (the softmax gives each a positive weight).
PredictStep ==
    /\ ppc = "loop"
    /\ count < gen_length
    /\ ModelAccepts(tokens)
    /\ \E predicted_idx \in 0..(num_classes - 1) :
         /\ predicted_idx < Len(vocab)
         /\ generated' = Append(generated, vocab[predicted_idx + 1])
         /\ log' = Append(log, [tokens |-> tokens, states |-> states,
                                out |-> LstmState(states, tokens),
                                idx |-> predicted_idx])
         /\ tokens' = NextTokens(tokens, predicted_idx)
    /\ states' = LstmState(states, tokens)
    /\ count' = count + 1
    /\ UNCHANGED <<ppc, num_classes, seed, gen_length, reused, result>>
    /\ UNCHANGED <<dataVars, trainVars, fileVars>>

\* Line 244 raises: an index with no embedding row, or an empty sequence.
PredictModelError ==
    /\ ppc = "loop"
    /\ count < gen_length
    /\ ~ModelAccepts(tokens)
    /\ ppc' = "model_error"
    /\ UNCHANGED <<num_classes, seed, gen_length, tokens, states, generated,
                   count, log, reused, result>>
    /\ UNCHANGED <<dataVars, trainVars, fileVars>>

\* Line 250 raises IndexError: the sampled class is no index of vocab.
PredictDecodeError ==
    /\ ppc = "loop"
    /\ count < gen_length
    /\ ModelAccepts(tokens)
    /\ \E predicted_idx \in 0..(num_classes - 1) : ~(predicted_idx < Len(vocab))
    /\ ppc' = "IndexError"
    /\ UNCHANGED <<num_classes, seed, gen_length, tokens, states, generated,
                   count, log, reused, result>>
    /\ UNCHANGED <<dataVars, trainVars, fileVars>>

\* return generated (line 255); the Predictor can be called again.
PredictReturn ==
    /\ ppc = "loop"
    /\ count = gen_length
    /\ result' = generated
    /\ reused' = TRUE
    /\ ppc' = "ready"
    /\ UNCHANGED <<num_classes, seed, gen_length, tokens, states, generated,
                   count, log>>
    /\ UNCHANGED <<dataVars, trainVars, fileVars>>

\* ------------------------------------------------------- specifications
TrainerIdle ==
    /\ tpc = "idle"
    /\ num_epoch = 0
    /\ epoch = 0
    /\ num_batches = 0
    /\ batch_size = 1
    /\ val_examples = <<>>
    /\ remaining = {}
    /\ output = <<>>
    /\ tokens_count = 0
    /\ correct = 0
    /\ tb = 0
    /\ losses = <<>>
    /\ steps = 0
    /\ val_loss = None
    /\ accuracy = None
    /\ all_losses = <<>>

PredictorIdle ==
    /\ ppc = "idle"
    /\ num_classes = 0
    /\ seed = <<>>
    /\ gen_length = 0
    /\ tokens = <<>>
    /\ states = None
    /\ generated = <<>>
    /\ count = 0
    /\ log = <<>>
    /\ reused = FALSE
    /\ result = <<>>

NoFiles ==
    /\ written = <<>>
    /\ model_pth = <<>>
    /\ vocab_json = <<>>
    /\ train_csv = <<>>

InitData ==
    /\ text \in Texts
    /\ max_length \in 1..MaxWindow
    /\ train_set = <<>>
    /\ val_set = <<>>
    /\ vocab = <<>>
    /\ char2idx = <<>>
    /\ dpc = "load"
    /\ dataset = <<>>
    /\ i = 0
    /\ xs = <<>>
    /\ ys = <<>>
    /\ built = <<>>
    /\ TrainerIdle
    /\ NoFiles
    /\ PredictorIdle

NextData ==
    \/ LoadModule
    \/ BeginTrain
    \/ BeginVal
    \/ LMDatasetIter
    \/ LMDatasetKeyError
    \/ LMDatasetEnd

SpecData == InitData /\ [][NextData]_vars

\* One validation position: <<input token index, target index>>.
Positions == Classes \X Classes

\* The inputs of a run of Trainer.train (the Trainer is handed its loaders
\* and its model): long validation sets with short runs, and long runs
\* with short validation sets.
TrainInputs ==
    ([val : SeqsUpTo(Positions, MaxValExamples), E : 0..1, B : 0..1])
    \cup ([val : SeqsUpTo(Positions, 1), E : 0..MaxEpochs, B : 0..MaxTrainBatches])

InitTrain ==
    /\ \E S \in SUBSET LongChars : ModuleLoaded(CorpusFor(S))
    /\ DatasetsIdle
    /\ \E in \in TrainInputs :
         /\ val_examples = in.val
         /\ num_epoch = in.E
         /\ num_batches = in.B
    /\ batch_size \in 1..MaxBatchSize
    /\ tpc = "start"
    /\ epoch = 0
    /\ remaining = {}
    /\ output = <<>>
    /\ tokens_count = 0
    /\ correct = 0
    /\ tb = 0
    /\ losses = <<>>
    /\ steps = 0
    /\ val_loss = None
    /\ accuracy = None
    /\ all_losses = <<>>
    /\ NoFiles
    /\ PredictorIdle

NextTrain ==
    \/ TrainStart
    \/ ValidateBatch
    \/ ValidateZeroDivision
    \/ ValidateReturn0
    \/ TrainBatch
    \/ TrainEpochReturn
    \/ ValidateReturn
    \/ FrameworkError
    \/ SaveModelPth
    \/ SaveVocabJson
    \/ ToCsv

SpecTrain == InitTrain /\ [][NextTrain]_vars

\* A process that has loaded its corpus and finds in the results directory
\* the artifacts of an earlier training run, whose corpus had the
\* characters S0 (a run that saves had a non-empty validation loader, hence
\* a non-empty training split).
InitPredict ==
    /\ \E S \in SUBSET Chars : ModuleLoaded(CorpusFor(S))
    /\ DatasetsIdle
    /\ TrainerIdle
    /\ \E S0 \in (SUBSET Chars) \ {{}} :
         /\ model_pth = <<Cardinality(S0)>>
         /\ vocab_json = JsonDumps(SortedSet(S0))
    /\ written = <<>>
    /\ train_csv = <<>>
    /\ ppc = "new"
    /\ num_classes = 0
    /\ seed = <<>>
    /\ gen_length = 0
    /\ tokens = <<>>
    /\ states = None
    /\ generated = <<>>
    /\ count = 0
    /\ log = <<>>
    /\ reused = FALSE
    /\ result = <<>>

NextPredict ==
    \/ PredictorInit
    \/ PredictBegin
    \/ PredictKeyError
    \/ PredictStep
    \/ PredictModelError
    \/ PredictDecodeError
    \/ PredictReturn

SpecPredict == InitPredict /\ [][NextPredict]_vars

\* ===================================================== claims, SpecData
Built == Range(built)

\* The examples the loop of line 30 yields for a split of length n:
\* i = 0, L, 2L, ... while i < n - L - 2, that is while i + L + 3 <= n.
WindowStarts(n, L) == {k \in 0..n : k % L = 0 /\ k + L + 3 <= n}

\* C1 as stated: a split of length N yields floor((N - L - 2) / L) + 1
\* examples when N >= L + 2 and none when N < L + 2.
C1_AsStated ==
    \A b \in Built :
        LET n == Len(b.split) IN
        Len(b.xs) = IF n >= max_length + 2
                    THEN ((n - max_length - 2) \div max_length) + 1
                    ELSE 0

\* C1 amended: a split of length N yields floor((N - L - 3) / L) + 1 examples
\* when N >= L + 3 and none when N < L + 3: one example for each
\* i = 0, L, 2L, ... with i + L + 3 <= N.
C1_ExampleCount ==
    \A b \in Built :
        LET n == Len(b.split) IN
        /\ Len(b.xs) = IF n >= max_length + 3
                       THEN ((n - max_length - 3) \div max_length) + 1
                       ELSE 0
        /\ Len(b.xs) = Cardinality(WindowStarts(n, max_length))
        /\ Len(b.ys) = Len(b.xs)

\* A split whose length is exactly L + 2 plus a multiple of L has been built
\* with at least one example: the case the two counts differ on.
C1_Witness ==
    \E b \in Built :
        /\ Len(b.split) >= max_length + 2
        /\ (Len(b.split) - max_length - 2) % max_length = 0
        /\ Len(b.xs) >= 1

\* C2: every example has an input and a target of exactly L indices; example
\* k (from 0) holds the indices of split[kL : kL+L] and split[kL+1 : kL+L+1],
\* so the target is the input shifted by one and no shorter window exists.
C2_WindowContents ==
    \A b \in Built :
        \A k \in 1..Len(b.xs) :
            /\ k <= Len(b.ys)
            /\ Len(b.xs[k]) = max_length
            /\ Len(b.ys[k]) = max_length
            /\ (k - 1) * max_length + max_length + 1 <= Len(b.split)
            /\ \A j \in 1..max_length :
                 LET c == b.split[(k - 1) * max_length + j]
                     n == b.split[(k - 1) * max_length + j + 1]
                 IN /\ vocab[b.xs[k][j] + 1] = c
                    /\ vocab[b.ys[k][j] + 1] = n
                    /\ j < max_length => b.ys[k][j] = b.xs[k][j + 1]

\* A dataset of at least two examples with windows of at least two indices.
C2_Witness ==
    \E b \in Built : Len(b.xs) >= 2 /\ max_length >= 2 /\ b.xs[1] # b.xs[2]

Loaded == dpc # "load"

\* C7: vocab is the sorted list of the distinct characters of the training
\* split, none from the validation split alone; char2idx maps them one to
\* one onto 0..len(vocab)-1 with vocab[char2idx[c]] = c; an empty split
\* gives an empty vocabulary.
C7_Vocabulary ==
    Loaded =>
        /\ Len(train_set) = (Len(text) * 7) \div 10
        /\ train_set \o val_set = text
        /\ Range(vocab) = Range(train_set)
        /\ \A a, b \in DOMAIN vocab : a < b => vocab[a] < vocab[b]
        /\ DOMAIN char2idx = Range(vocab)
        /\ {char2idx[c] : c \in DOMAIN char2idx} = 0..(Len(vocab) - 1)
        /\ \A c \in DOMAIN char2idx : vocab[char2idx[c] + 1] = c
        /\ \A c, d \in DOMAIN char2idx : char2idx[c] = char2idx[d] => c = d
        /\ train_set = <<>> => vocab = <<>>

\* A loaded corpus whose training split has repeated characters out of
\* order and whose validation split has a character of its own.
C7_Witness ==
    /\ Loaded
    /\ Len(vocab) >= 2
    /\ Len(train_set) > Len(vocab)
    /\ \E k \in 1..(Len(train_set) - 1) : train_set[k] > train_set[k + 1]
    /\ Range(val_set) \ Range(vocab) # {}

KeyErrorStates == {"train_KeyError", "val_KeyError"}

AllInVocab(s) == \A k \in DOMAIN s : s[k] \in Range(vocab)

\* C9 as stated: construction fails whenever the split has a character
\* outside the mapping, and succeeds otherwise.
C9_AsStated ==
    /\ dpc \in KeyErrorStates => ~AllInVocab(dataset)
    /\ \A b \in Built : AllInVocab(b.split)

\* The part of a split of length n the windows cover: the examples' windows
\* are split[i : i + L + 1], so with m examples the first m * L + 1 characters.
Scanned(s, L) ==
    LET m == Cardinality(WindowStarts(Len(s), L)) IN
    IF m = 0 THEN <<>> ELSE SubSeq(s, 1, m * L + 1)

\* C9 amended: construction fails with a lookup error exactly when a
\* character inside one of the windows split[i : i+L+1], i = 0, L, 2L, ...
\* with i + L + 3 <= N, is not in the mapping, and then produces no dataset;
\* characters after the last window are never looked up; construction
\* succeeds when every character of the split is in the mapping.
C9_LookupError ==
    /\ dpc \in KeyErrorStates =>
         /\ ~AllInVocab(Scanned(dataset, max_length))
         /\ \A b \in Built : b.which = "train" /\ dpc = "val_KeyError"
    /\ \A b \in Built : AllInVocab(Scanned(b.split, max_length))
    /\ InLoop /\ AllInVocab(dataset) => ENABLED (LMDatasetIter \/ LMDatasetEnd)

\* The validation split failed on a character the training split lacks.
C9_Witness ==
    /\ dpc = "val_KeyError"
    /\ Len(built) = 1
    /\ ~AllInVocab(Txt(dataset, i, max_length))

\* ===================================================== claims, SpecTrain
AfterLoop == tpc \in {"save_model", "save_vocab", "to_csv", "done"}

Aborted == tpc \in {"RuntimeError", "ZeroDivisionError"}

IsValRow(r) == r.train_loss = <<>> /\ r.val_loss # <<>> /\ r.accuracy # <<>>

IsTrainRow(r) == r.train_loss # <<>> /\ r.val_loss = <<>> /\ r.accuracy = <<>>

\* C3: the log of train(E) over B training batches per epoch is one
\* validation row taken before any training step, then per epoch B training
\* rows in batch order and one validation row taken after that epoch's
\* training: 1 + E * (B + 1) rows, each filling either only train_loss or
\* only val_loss and accuracy.
C3_MetricsLog ==
    /\ AfterLoop => Len(all_losses) = 1 + num_epoch * (num_batches + 1)
    /\ tpc \in {"train_epoch", "validate"} =>
         Len(all_losses) = 1 + epoch * (num_batches + 1)
    /\ \A j \in DOMAIN all_losses :
         LET r == all_losses[j]
             q == (j - 2) \div (num_batches + 1)
             k == (j - 2) % (num_batches + 1)
         IN IF j = 1
            THEN IsValRow(r) /\ r.val_loss = <<0>>
            ELSE IF k < num_batches
                 THEN IsTrainRow(r) /\ r.train_loss = <<q * num_batches + k>>
                 ELSE IsValRow(r) /\ r.val_loss = <<(q + 1) * num_batches>>

\* A finished run of two epochs of two batches: seven rows.
C3_Witness ==
    /\ tpc = "done"
    /\ num_epoch = 2
    /\ num_batches = 2
    /\ Len(all_losses) = 7

Valid == {e \in DOMAIN val_examples : val_examples[e][1] > 0}

\* C4 as stated: for every validation set and model output, tokens_count is
\* the number of processed input indices greater than zero, and validate()
\* returns as accuracy the number of those positions predicted right divided
\* by tokens_count, a number in [0, 1].
C4_AsStated ==
    /\ InValidate =>
         tokens_count = Cardinality(Valid \ remaining)
    /\ tpc # "ZeroDivisionError"
    /\ tpc \in {"train_epoch", "save_model"} =>
         /\ accuracy[1] = Cardinality({e \in Valid : output[e] = val_examples[e][2]})
         /\ accuracy[2] = Cardinality(Valid)
         /\ accuracy[2] > 0
         /\ 0 <= accuracy[1] /\ accuracy[1] <= accuracy[2]

\* C10: the artifacts are written only after the last epoch's validation,
\* in the order model.pth, vocab.json, train.csv; a run that fails in a
\* training or validation step has written nothing, its rows included.
C10_Artifacts ==
    /\ \E n \in 0..3 : written = SubSeq(<<"model.pth", "vocab.json", "train.csv">>, 1, n)
    /\ written # <<>> =>
         /\ AfterLoop
         /\ epoch = num_epoch
         /\ Len(all_losses) = 1 + num_epoch * (num_batches + 1)
         /\ steps = num_epoch * num_batches
         /\ all_losses[Len(all_losses)].val_loss = <<steps>>
    /\ Aborted =>
         written = <<>> /\ model_pth = <<>> /\ vocab_json = <<>> /\ train_csv = <<>>
    /\ tpc = "done" => Len(written) = 3 /\ train_csv = all_losses

\* A run of at least one epoch that has written all three artifacts.
C10_Witness ==
    /\ tpc = "done"
    /\ num_epoch >= 1
    /\ num_batches >= 1
    /\ written = <<"model.pth", "vocab.json", "train.csv">>

\* ===================================================== claims, SpecPredict
\* The encoding of sd under the process's vocabulary.
IsEncoding(x, sd) ==
    /\ Len(x) = Len(sd)
    /\ \A k \in DOMAIN x : x[k] + 1 \in DOMAIN vocab /\ vocab[x[k] + 1] = sd[k]

\* C5: in every call of predict the first model step gets no recurrent state
\* and the whole encoded seed, whatever an earlier call left behind; step k
\* gets the one index sampled at step k - 1 and the state step k - 1
\* returned, so the state holds the seed and this call's samples only.
C5_StateThreading ==
    /\ ppc = "loop" => Len(log) = count
    /\ \A p \in DOMAIN log :
         /\ IF p = 1
            THEN /\ log[p].states = <<>>
                 /\ IsEncoding(log[p].tokens, seed)
            ELSE /\ log[p].tokens = <<log[p - 1].idx>>
                 /\ log[p].states = log[p - 1].out
         /\ IsEncoding(SubSeq(log[p].out, 1, Len(seed)), seed)
         /\ Len(log[p].out) = Len(seed) + p - 1
         /\ \A q \in 1..(p - 1) : log[p].out[Len(seed) + q] = log[q].idx

\* A second call on the same Predictor, two steps in, after a first call
\* that left a state behind.
C5_Witness ==
    /\ reused
    /\ result # <<>>
    /\ ppc = "loop"
    /\ Len(log) = 2
    /\ Len(seed) = 2

LoadedVocab == JsonLoad(vocab_json)

PredictFailed == ppc \in {"KeyError", "model_error", "IndexError"}

\* C6 as stated, in the case most favourable to it (vocab.json holds the
\* very vocabulary of the running process): for every seed whose characters
\* are all in the vocabulary and every max_length >= 0, predict returns
\* max_length characters of the vocabulary, one per model step.
C6_AsStated ==
    (LoadedVocab = vocab /\ \A k \in DOMAIN seed : seed[k] \in Range(vocab)) =>
        /\ ~PredictFailed
        /\ ppc = "loop" => Len(generated) = count
        /\ (ppc = "ready" /\ reused) =>
             /\ Len(result) = gen_length
             /\ \A k \in DOMAIN result : result[k] \in Range(vocab)

\* C8 as stated: the seed is encoded, and every sampled index decoded, with
\* the mapping given by the order of the vocab.json the Predictor loaded.
C8_AsStated ==
    \A p \in DOMAIN log :
        /\ p = 1 =>
             /\ Len(log[p].tokens) = Len(seed)
             /\ \A k \in DOMAIN seed :
                  /\ log[p].tokens[k] + 1 \in DOMAIN LoadedVocab
                  /\ LoadedVocab[log[p].tokens[k] + 1] = seed[k]
        /\ p \in DOMAIN generated =>
             /\ log[p].idx + 1 \in DOMAIN LoadedVocab
             /\ generated[p] = LoadedVocab[log[p].idx + 1]

====
